---- MODULE Spec2Model ----
(***************************************************************************)
(* A model of ExoCTK's SOSS field simulation                               *)
(* (contam_visibility/sossFieldSim.py, function sossFieldSim) and of the   *)
(* parameter table of core.ModelGrid (core.py).                            *)
(*                                                                         *)
(* Number representation.  The program computes in floating point; the     *)
(* model computes in exact fixed point:                                    *)
(*   - sky angles are integers in milliarcseconds (mas);                   *)
(*   - magnitudes and colours are integers in tenths of a magnitude;       *)
(*   - np.cos / np.sin of whole degrees are integers in 1/TrigScale;       *)
(*   - a pixel coordinate is an integer numerator over PixDen, so          *)
(*     sub-pixel positions, the comparisons with the field window and      *)
(*     round() are exact;                                                  *)
(*   - a flux scale is an integer in 1/100, cube pixels likewise.          *)
(* Arrays are 0-based as in the program; a TLA+ sequence s models the      *)
(* array a with a[j] = s[j+1].                                             *)
(***************************************************************************)
EXTENDS Integers, Sequences, FiniteSets, TLC

(***************************************************************************)
(* Scale of the model.                                                     *)
(***************************************************************************)
\* Width of the output frame: the dimX argument (default 256).
dimX == 2
\* Height of the output frame; the program fixes 2048, the model scales it.
dimY == 3
\* Step of the sweep in degrees; the program fixes 1, the model scales it.
dPA == 90
\* Largest number of field stars a catalog of the model holds besides the
\* star at the query position.
MaxField == 2

(***************************************************************************)
(* Program constants.                                                      *)
(***************************************************************************)
PAmin == 0
PAmax == 360
\* niriss_pixel_scale = 0.065 arcsec, in mas
niriss_pixel_scale == 65
\* sweetSpot x and y
sweetSpotX == 856
sweetSpotY == 107
\* Query position of the run (ra, dec), mas relative to the field origin,
\* which lies on the celestial equator.
targetRA == 0
targetDEC == 0

(***************************************************************************)
(* Generic helpers.                                                        *)
(***************************************************************************)
Min(a, b) == IF a <= b THEN a ELSE b
Max(a, b) == IF a >= b THEN a ELSE b

RECURSIVE Pow10(_)
Pow10(n) == IF n <= 0 THEN 1 ELSE 10 * Pow10(n - 1)

\* np.argmin: the index (0-based) of the first minimum of a non-empty array
ArgMin(s) ==
    (CHOOSE j \in 1..Len(s) :
        /\ \A m \in 1..Len(s) : s[j] <= s[m]
        /\ \A m \in 1..(j - 1) : s[m] > s[j]) - 1

\* np.arange(lo, hi, step)
RECURSIVE Arange(_, _, _)
Arange(lo, hi, step) ==
    IF lo >= hi THEN <<>> ELSE <<lo>> \o Arange(lo + step, hi, step)

(***************************************************************************)
(* np.sin and np.cos of whole degrees, in 1/TrigScale.                     *)
(***************************************************************************)
TrigScale == 1000

SinTab ==
    <<0, 17, 35, 52, 70, 87, 105, 122, 139, 156, 174, 191, 208, 225, 242,
      259, 276, 292, 309, 326, 342, 358, 375, 391, 407, 423, 438, 454, 469,
      485, 500, 515, 530, 545, 559, 574, 588, 602, 616, 629, 643, 656, 669,
      682, 695, 707, 719, 731, 743, 755, 766, 777, 788, 799, 809, 819, 829,
      839, 848, 857, 866, 875, 883, 891, 899, 906, 914, 921, 927, 934, 940,
      946, 951, 956, 961, 966, 970, 974, 978, 982, 985, 988, 990, 993, 995,
      996, 998, 999, 999, 1000, 1000>>

SinDeg(a) ==
    LET b == a % 360
    IN  IF b <= 90 THEN SinTab[b + 1]
        ELSE IF b <= 180 THEN SinTab[180 - b + 1]
        ELSE IF b <= 270 THEN -SinTab[b - 180 + 1]
        ELSE -SinTab[360 - b + 1]

CosDeg(a) == SinDeg(a + 90)

\* whole degrees of an angle given in mas (nearest)
DegOfMas(m) == (m + 1800000) \div 3600000

(***************************************************************************)
(* Pixel arithmetic: a coordinate is a numerator over PixDen.              *)
(***************************************************************************)
PixDen == TrigScale * niriss_pixel_scale

\* Python 3 round(): to the nearest integer, a tie to the even one
Round(n) ==
    LET q == n \div PixDen
        r == n % PixDen
    IN  IF 2 * r < PixDen THEN q
        ELSE IF 2 * r > PixDen THEN q + 1
        ELSE IF q % 2 = 0 THEN q ELSE q + 1

(***************************************************************************)
(* The model file modelsInfo.sav (lines 56-64) and the per-temperature     *)
(* save files (line 100).  The padding and the size of the model arrays    *)
(* are data; the values below make a star of the field meet every case of  *)
(* the window arithmetic: full overlap, a window clipped at either end, an *)
(* empty window and a rejected one.                                        *)
(***************************************************************************)
modelPadX == 1375 - dimX
modelPadY == 2115 - dimY
dimXmod == modelPadX + 1020
dimYmod == modelPadY + 260

\* models[k, my, mx]: the field-star trace model of temperature index k
models(k, my, mx) == 1 + ((k + my + 2 * mx) % 3)

\* readsav(saveFiles[k])['modelo12'][o, my, mx]: the two orders of the target
modelO12(k, o, my, mx) == 1 + ((k + o + my + mx) % 2)

\* the colour table: jhMod, hkMod (tenths of a magnitude) and teffMod (K)
ColorTable ==
    [jhMod |-> <<2, 6, 6, 9>>, hkMod |-> <<1, 1, 1, 3>>,
     teffMod |-> <<3000, 4000, 4500, 6000>>]

\* teffMod is an array of floats: NaN stands for an entry that is not a number
NaN == -1

\* a colour table whose last temperature is not a number
ColorTableNaN ==
    [jhMod |-> <<2, 6, 6, 9>>, hkMod |-> <<1, 1, 1, 3>>,
     teffMod |-> <<3000, 4000, 4500, NaN>>]

(***************************************************************************)
(* The catalog (Irsa.query_region, line 21) and the companion argument.    *)
(* A record is placed by its pixel offset from the query position at       *)
(* position angle 0, where dx = -dDEC / scale and dy = dRA / scale.        *)
(***************************************************************************)
AtOffset(xmas, ymas, j, h, k) ==
    [ra |-> targetRA + ymas, dec |-> targetDEC - xmas,
     j_m |-> j, h_m |-> h, k_m |-> k]

AtPixel(px, py, j, h, k) ==
    AtOffset(px * niriss_pixel_scale, py * niriss_pixel_scale, j, h, k)

\* the star at the query position
Target == AtPixel(0, 0, 100, 94, 93)

FieldStars ==
    { AtPixel(1, 0, 125, 121, 120),        \* a close neighbour
      AtOffset(20, 0, 125, 116, 113),      \* a neighbour a third of a pixel away
      AtPixel(1376, 0, 125, 116, 113),     \* on the right margin
      AtPixel(1377, 0, 75, 73, 72),        \* one pixel right of the window
      AtPixel(1375, 0, 125, 121, 120),     \* one pixel inside on the right
      AtPixel(-1019, 0, 75, 73, 72),       \* one pixel left of the window
      AtPixel(-1017, 0, 125, 116, 113),    \* one pixel inside on the left
      AtOffset(-66190, 0, 125, 121, 120),  \* x = -162.3: outside, rounds onto the margin
      AtPixel(0, 2115, 125, 116, 113),     \* one pixel above the window
      AtPixel(0, 2113, 75, 73, 72),        \* one pixel inside at the top
      AtPixel(0, 2114, 125, 121, 120),     \* on the top margin
      AtPixel(0, -262, 125, 116, 113),     \* one pixel below the window
      AtPixel(0, -260, 125, 121, 120),     \* one pixel inside at the bottom
      AtPixel(0, -259, 75, 73, 72) }       \* two pixels inside at the bottom

\* sequences of distinct records, at most n long
InjSeqs(S, n) ==
    UNION { { s \in [1..m -> S] : \A a, b \in 1..m : a # b => s[a] # s[b] }
            : m \in 0..n }

\* the catalogs of the model: up to MaxField field stars, with or without
\* the star at the query position in front of them
Catalogs ==
    InjSeqs(FieldStars \cup {Target}, MaxField)
        \cup { <<Target>> \o s : s \in InjSeqs(FieldStars, MaxField) }

\* the catalogs of the runs with ColorTableNaN: the target and up to
\* MaxField of four field stars, two of them of the colours of the table's
\* last entry
CatalogsNaN ==
    { <<Target>> \o s :
        s \in InjSeqs({ AtPixel(1, 0, 125, 121, 120),
                        AtOffset(20, 0, 125, 116, 113),
                        AtPixel(0, -262, 125, 116, 113),
                        AtPixel(0, -259, 75, 73, 72) }, MaxField) }

\* binComp: <<>> models '' (no companion), else
\* <<deltaRA, deltaDEC, J, H, K>> with the offsets in mas
BinComps == { <<>>, <<5000, 0, 100, 98, 97>> }

(***************************************************************************)
(* State of one run of sossFieldSim.                                       *)
(***************************************************************************)
VARIABLES
    pc,           \* position: "start", "angle", "star", "done", "error"
    info,         \* the catalog's answer (line 21)
    binComp,      \* the binComp argument
    jhMod, hkMod, teffMod,          \* the colour table
    allRA, allDEC, Jmag, Hmag, Kmag,
    J_Hobs, H_Kobs,
    targetIndex,
    sweetSpot,
    stars,        \* the structured array: RA, DEC, dRA, dDEC, jmag, T, x, y, dx, dy
    kPA,          \* index of the angle of the big loop
    ind,          \* indices of the stars retained at this angle (line 151)
    i,            \* index of the star loop (line 155)
    simuCube,     \* simuCube[plane][<<y, x>>]
    writes        \* history: the slice assignments executed (lines 186, 187, 190)

simVars ==
    <<pc, info, binComp, jhMod, hkMod, teffMod, allRA, allDEC, Jmag, Hmag,
      Kmag, J_Hobs, H_Kobs, targetIndex, sweetSpot, stars, kPA, ind, i,
      simuCube, writes>>

\* PAtab = np.arange(PAmin, PAmax, dPA) and nPA
PAtab == Arange(PAmin, PAmax, dPA)
nPA == Len(PAtab)

Pixels == (0..(dimY - 1)) \X (0..(dimX - 1))
Planes == 0..(nPA + 1)

\* np.zeros([nPA+2, dimY, dimX])
ZeroPlane == [p \in Pixels |-> 0]
ZeroCube == [n \in Planes |-> ZeroPlane]

InitSim ==
    /\ pc = "start"
    /\ info \in Catalogs
    /\ binComp \in BinComps
    /\ jhMod = ColorTable.jhMod
    /\ hkMod = ColorTable.hkMod
    /\ teffMod = ColorTable.teffMod
    /\ allRA = <<>> /\ allDEC = <<>>
    /\ Jmag = <<>> /\ Hmag = <<>> /\ Kmag = <<>>
    /\ J_Hobs = <<>> /\ H_Kobs = <<>>
    /\ targetIndex = 0
    /\ sweetSpot = [x |-> sweetSpotX, y |-> sweetSpotY, RA |-> 0, DEC |-> 0, jmag |-> 0]
    /\ stars = <<>>
    /\ kPA = 0
    /\ ind = <<>>
    /\ i = 0
    /\ simuCube = ZeroCube
    /\ writes = <<>>

\* a run with the colour table ColorTableNaN
InitSimNaN ==
    /\ pc = "start"
    /\ info \in CatalogsNaN
    /\ binComp \in BinComps
    /\ jhMod = ColorTableNaN.jhMod
    /\ hkMod = ColorTableNaN.hkMod
    /\ teffMod = ColorTableNaN.teffMod
    /\ allRA = <<>> /\ allDEC = <<>>
    /\ Jmag = <<>> /\ Hmag = <<>> /\ Kmag = <<>>
    /\ J_Hobs = <<>> /\ H_Kobs = <<>>
    /\ targetIndex = 0
    /\ sweetSpot = [x |-> sweetSpotX, y |-> sweetSpotY, RA |-> 0, DEC |-> 0, jmag |-> 0]
    /\ stars = <<>>
    /\ kPA = 0
    /\ ind = <<>>
    /\ i = 0
    /\ simuCube = ZeroCube
    /\ writes = <<>>

(***************************************************************************)
(* Lines 18-100: the catalog, the target, the companion, the temperatures, *)
(* the offsets from the target and the empty cube.                         *)
(***************************************************************************)
\* line 33, squared, in units of DistUnit mas (the square of a distance in
\* mas does not fit the model checker's integers); np.cos(targetDEC) is 1
\* at the targetDEC of the model
DistUnit == 10
Distance2(ra, dec) ==
    LET a == ((targetRA - ra) * CosDeg(targetDEC)) \div (TrigScale * DistUnit)
        b == (targetDEC - dec) \div DistUnit
    IN  a * a + b * b

\* lines 69-71: the temperature of the nearest entry of the colour table
color_separation(jh, hk) ==
    [m \in 1..Len(jhMod) |->
        (jh - jhMod[m]) * (jh - jhMod[m]) + (hk - hkMod[m]) * (hk - hkMod[m])]

\* a variant of min_separation_ind: the last minimum instead of the first
min_separation_last(jh, hk) ==
    LET c == color_separation(jh, hk)
    IN  (CHOOSE j \in 1..Len(c) :
            /\ \A m \in 1..Len(c) : c[j] <= c[m]
            /\ \A m \in (j + 1)..Len(c) : c[m] > c[j]) - 1

min_separation_ind(jh, hk) == ArgMin(color_separation(jh, hk))

AssignTeff(jh, hk) == teffMod[min_separation_ind(jh, hk) + 1]

\* elementwise difference of two arrays of one length; numpy refuses two
\* arrays of different lengths
Minus(a, b) == [m \in 1..Len(a) |-> a[m] - b[m]]

\* a variant of dRAof: the offset from the query position
dRAofQuery(ra, sw) == ((ra - targetRA) * CosDeg(DegOfMas(sw.DEC))) \div TrigScale

\* line 78: (allRA - sweetSpot['RA']) * cos(sweetSpot['DEC']/radeg) * 3600
dRAof(ra, sw) == ((ra - sw.RA) * CosDeg(DegOfMas(sw.DEC))) \div TrigScale
\* line 79
dDECof(dec, sw) == dec - sw.DEC

Prepare ==
    /\ pc = "start"
    /\ IF Len(info) = 0
       THEN \* np.argmin of an empty array raises ValueError (line 34)
            /\ pc' = "error"
            /\ UNCHANGED <<allRA, allDEC, Jmag, Hmag, Kmag, J_Hobs, H_Kobs,
                           targetIndex, sweetSpot, stars, simuCube>>
       ELSE LET ra0 == [m \in 1..Len(info) |-> info[m].ra]
                dec0 == [m \in 1..Len(info) |-> info[m].dec]
                j0 == [m \in 1..Len(info) |-> info[m].j_m]
                h0 == [m \in 1..Len(info) |-> info[m].h_m]
                k0 == [m \in 1..Len(info) |-> info[m].k_m]
                t == ArgMin([m \in 1..Len(info) |-> Distance2(ra0[m], dec0[m])])
                comp == binComp # <<>>
                \* lines 40-44
                ra1 == IF comp
                       THEN Append(ra0, ra0[t + 1]
                              + (binComp[1] * TrigScale) \div CosDeg(DegOfMas(dec0[t + 1])))
                       ELSE ra0
                dec1 == IF comp THEN Append(dec0, dec0[t + 1] + binComp[2]) ELSE dec0
                j1 == IF comp THEN Append(j0, binComp[3]) ELSE j0
                h1 == IF comp THEN Append(k0, binComp[4]) ELSE h0
                k1 == IF comp THEN Append(k0, binComp[5]) ELSE k0
                jh == Minus(j1, h1)
                hk == Minus(h1, k1)
                sw == [x |-> sweetSpotX, y |-> sweetSpotY,
                       RA |-> ra1[t + 1], DEC |-> dec1[t + 1], jmag |-> j1[t + 1]]
            IN  /\ pc' = "angle"
                /\ allRA' = ra1 /\ allDEC' = dec1
                /\ Jmag' = j1 /\ Hmag' = h1 /\ Kmag' = k1
                /\ J_Hobs' = jh /\ H_Kobs' = hk
                /\ targetIndex' = t
                /\ sweetSpot' = sw
                /\ stars' = [m \in 1..Len(ra1) |->
                                [RA |-> ra1[m], DEC |-> dec1[m],
                                 dRA |-> dRAof(ra1[m], sw),
                                 dDEC |-> dDECof(dec1[m], sw),
                                 jmag |-> j1[m],
                                 T |-> AssignTeff(jh[m], hk[m]),
                                 \* np.empty: assigned at lines 108-111
                                 \* before they are ever read
                                 x |-> 0, y |-> 0, dx |-> 0, dy |-> 0]]
                /\ simuCube' = ZeroCube
    /\ kPA' = 0 /\ ind' = <<>> /\ i' = 0
    /\ UNCHANGED <<info, binComp, jhMod, hkMod, teffMod, writes>>

(***************************************************************************)
(* Lines 104-152: the projection of every star at angle kPA and the stars  *)
(* retained in the field of view.                                          *)
(***************************************************************************)
\* lines 108-109, numerators over PixDen
dxOf(st, APA) == CosDeg(90 + APA) * st.dRA - SinDeg(90 + APA) * st.dDEC
dyOf(st, APA) == SinDeg(90 + APA) * st.dRA + CosDeg(90 + APA) * st.dDEC

\* a variant of InFOV: the lower bound of x is missing
InFOVNoLowerX(st) ==
    /\ st.x <= (2047 + 185) * PixDen
    /\ st.y >= -154 * PixDen
    /\ st.y <= (2047 + 174) * PixDen

\* a variant of InFOV: the detector itself, without the margins around it
InFOVDetectorOnly(st) ==
    /\ st.x >= 0
    /\ st.x <= 2047 * PixDen
    /\ st.y >= 0
    /\ st.y <= 2047 * PixDen

\* line 151: within the direct-image field of view
InFOV(st) ==
    /\ st.x >= -162 * PixDen
    /\ st.x <= (2047 + 185) * PixDen
    /\ st.y >= -154 * PixDen
    /\ st.y <= (2047 + 174) * PixDen

\* a variant of WhereInFOV: after the first angle, among the stars retained
\* at the angle before
RECURSIVE WhereInFOVOfRetained(_, _)
WhereInFOVOfRetained(ss, m) ==
    IF m > Len(ss) THEN <<>>
    ELSE (IF InFOV(ss[m]) /\ (kPA = 0 \/ \E n \in 1..Len(ind) : ind[n] = m - 1)
          THEN <<m - 1>> ELSE <<>>) \o WhereInFOVOfRetained(ss, m + 1)

\* np.where: the indices (0-based, ascending) of the stars that satisfy InFOV
RECURSIVE WhereInFOV(_, _)
WhereInFOV(ss, m) ==
    IF m > Len(ss) THEN <<>>
    ELSE (IF InFOV(ss[m]) THEN <<m - 1>> ELSE <<>>) \o WhereInFOV(ss, m + 1)

Projected(ss, APA) ==
    [m \in 1..Len(ss) |->
        [ss[m] EXCEPT !.dx = dxOf(ss[m], APA),
                      !.dy = dyOf(ss[m], APA),
                      !.x = dxOf(ss[m], APA) + sweetSpot.x * PixDen,
                      !.y = dyOf(ss[m], APA) + sweetSpot.y * PixDen]]

Project ==
    /\ pc = "angle"
    /\ kPA < nPA
    /\ stars' = Projected(stars, PAtab[kPA + 1])
    /\ ind' = WhereInFOV(stars', 1)
    /\ i' = 0
    /\ pc' = "star"
    /\ UNCHANGED <<info, binComp, jhMod, hkMod, teffMod, allRA, allDEC, Jmag,
                   Hmag, Kmag, J_Hobs, H_Kobs, targetIndex, sweetSpot, kPA,
                   simuCube, writes>>

(***************************************************************************)
(* Lines 155-190: one star of the star loop.                               *)
(***************************************************************************)
\* line 162: 10.0**(-0.4*(jmag - sweetSpot['jmag'])), in 1/100; the
\* magnitudes of the model differ by multiples of 2.5
fluxscale(jmag, sw) == Pow10((50 - (jmag - sw.jmag)) \div 25)

\* a variant of TeffIndices: the entries that hold T, a NaN as any other value
TeffIndicesSameEntry(T) == { m - 1 : m \in { n \in 1..Len(teffMod) : teffMod[n] = T } }

\* line 160: np.where(teffMod == T)[0], the indices (0-based) of T; the
\* comparison of a NaN with any number, a NaN included, is False
TeffIndices(T) ==
    { m - 1 : m \in { n \in 1..Len(teffMod) : teffMod[n] = T /\ T # NaN } }
FirstOf(S) == CHOOSE m \in S : \A n \in S : m <= n

\* lines 165-168
mx0Of(intx) == modelPadX - intx
mx1Of(intx) == modelPadX - intx + dimX
my0Of(inty) == modelPadY - inty
my1Of(inty) == modelPadY - inty + dimY

\* a variant of Rejected: the second continue statement is missing
RejectedFarOnly(intx, inty) ==
    (mx0Of(intx) > dimXmod) \/ (my0Of(inty) > dimYmod)

\* lines 170-173: the two continue statements
Rejected(intx, inty) ==
    \/ (mx0Of(intx) > dimXmod) \/ (my0Of(inty) > dimYmod)
    \/ (mx1Of(intx) < 0) \/ (my1Of(inty) < 0)

\* a variant of Window: the far ends of the source window are not clipped
WindowFarEndUnclipped(intx, inty) ==
    [x0 |-> IF mx0Of(intx) < 0 THEN -mx0Of(intx) ELSE 0,
     y0 |-> IF my0Of(inty) < 0 THEN -my0Of(inty) ELSE 0,
     mx0 |-> IF mx0Of(intx) >= 0 THEN mx0Of(intx) ELSE 0,
     mx1 |-> mx1Of(intx),
     my0 |-> IF my0Of(inty) >= 0 THEN my0Of(inty) ELSE 0,
     my1 |-> my1Of(inty)]

\* lines 175-180
Window(intx, inty) ==
    [x0 |-> IF mx0Of(intx) < 0 THEN -mx0Of(intx) ELSE 0,
     y0 |-> IF my0Of(inty) < 0 THEN -my0Of(inty) ELSE 0,
     mx0 |-> IF mx0Of(intx) >= 0 THEN mx0Of(intx) ELSE 0,
     mx1 |-> IF mx1Of(intx) > dimXmod THEN dimXmod ELSE mx1Of(intx),
     my0 |-> IF my0Of(inty) >= 0 THEN my0Of(inty) ELSE 0,
     my1 |-> IF my1Of(inty) > dimYmod THEN dimYmod ELSE my1Of(inty)]

\* numpy's slice a:b of an axis of length n: the first index and the length
SliceStart(a, n) == IF a < 0 THEN Max(a + n, 0) ELSE Min(a, n)
SliceLen(a, b, n) == Max(SliceStart(b, n) - SliceStart(a, n), 0)

\* shapes of the two sides of the assignments of lines 186, 187 and 190
SrcShape(w) ==
    <<SliceLen(w.my0, w.my1, dimYmod), SliceLen(w.mx0, w.mx1, dimXmod)>>
DstShape(w) ==
    <<SliceLen(w.y0, w.y0 + w.my1 - w.my0, dimY),
      SliceLen(w.x0, w.x0 + w.mx1 - w.mx0, dimX)>>

\* the pixels of the destination slice
InDst(p, w) ==
    /\ p[1] >= SliceStart(w.y0, dimY)
    /\ p[1] < SliceStart(w.y0, dimY) + DstShape(w)[1]
    /\ p[2] >= SliceStart(w.x0, dimX)
    /\ p[2] < SliceStart(w.x0, dimX) + DstShape(w)[2]

\* lines 186-187: simuCube[o, ...] = modelO12[o, ...] * fluxscale
WriteOrder(plane, w, k, o, scale) ==
    [p \in Pixels |->
        IF InDst(p, w)
        THEN modelO12(k, o, SliceStart(w.my0, dimYmod) + p[1] - SliceStart(w.y0, dimY),
                            SliceStart(w.mx0, dimXmod) + p[2] - SliceStart(w.x0, dimX))
                 * scale
        ELSE plane[p]]

\* a variant of AddModel: the plane is cleared before the cutout is added
AddModelOnClearedPlane(plane, w, k, scale) ==
    [p \in Pixels |->
        IF InDst(p, w)
        THEN models(k, SliceStart(w.my0, dimYmod) + p[1] - SliceStart(w.y0, dimY),
                       SliceStart(w.mx0, dimXmod) + p[2] - SliceStart(w.x0, dimX))
                 * scale
        ELSE 0]

\* a variant of AddModel: the source slice starts one column late
AddModelShifted(plane, w, k, scale) ==
    [p \in Pixels |->
        IF InDst(p, w)
        THEN plane[p]
             + models(k, SliceStart(w.my0, dimYmod) + p[1] - SliceStart(w.y0, dimY),
                         SliceStart(w.mx0, dimXmod) + p[2] - SliceStart(w.x0, dimX) + 1)
                 * scale
        ELSE plane[p]]

\* line 190: simuCube[kPA+2, ...] += models[k, ...] * fluxscale
AddModel(plane, w, k, scale) ==
    [p \in Pixels |->
        IF InDst(p, w)
        THEN plane[p]
             + models(k, SliceStart(w.my0, dimYmod) + p[1] - SliceStart(w.y0, dimY),
                         SliceStart(w.mx0, dimXmod) + p[2] - SliceStart(w.x0, dimX))
                 * scale
        ELSE plane[p]]

\* a variant of PlaneOf: every angle composited into the first angle plane
PlaneOfFirstAngle(k) == 2

\* line 190: the plane of angle index k
PlaneOf(k) == k + 2

\* line 183 and line 189
IsTargetWrite(intx, inty, k) == (intx = 0) /\ (inty = 0) /\ (k = 0)
IsFieldStar(intx, inty) == (intx # 0) \/ (inty # 0)

CompositeStar ==
    /\ pc = "star"
    /\ i < Len(ind)
    /\ \E m \in {ind[i + 1]} :
       \E st \in {stars[m + 1]} :
       \E intx \in {Round(st.dx)}, inty \in {Round(st.dy)},
          ks \in {TeffIndices(st.T)},
          scale \in {fluxscale(st.jmag, sweetSpot)} :
       \E w \in {Window(intx, inty)} :
           IF ks = {}
           THEN \* [0][0] of an empty np.where raises IndexError (line 160)
                /\ pc' = "error"
                /\ UNCHANGED <<i, simuCube, writes>>
           ELSE IF Rejected(intx, inty)
           THEN \* continue
                /\ pc' = "star"
                /\ i' = i + 1
                /\ UNCHANGED <<simuCube, writes>>
           ELSE IF (IsTargetWrite(intx, inty, kPA) \/ IsFieldStar(intx, inty))
                   /\ SrcShape(w) # DstShape(w)
           THEN \* numpy refuses an assignment between slices of two shapes
                /\ pc' = "error"
                /\ UNCHANGED <<i, simuCube, writes>>
           ELSE /\ pc' = "star"
                /\ i' = i + 1
                /\ simuCube' =
                     IF IsTargetWrite(intx, inty, kPA)
                     THEN [simuCube EXCEPT
                             ![0] = WriteOrder(@, w, FirstOf(ks), 0, scale),
                             ![1] = WriteOrder(@, w, FirstOf(ks), 1, scale)]
                     ELSE IF IsFieldStar(intx, inty)
                     THEN [simuCube EXCEPT
                             ![PlaneOf(kPA)] = AddModel(@, w, FirstOf(ks), scale)]
                     ELSE simuCube
                /\ writes' =
                     IF IsTargetWrite(intx, inty, kPA)
                     THEN writes \o <<[plane |-> 0, kPA |-> kPA, star |-> m],
                                      [plane |-> 1, kPA |-> kPA, star |-> m]>>
                     ELSE IF IsFieldStar(intx, inty)
                     THEN Append(writes, [plane |-> PlaneOf(kPA), kPA |-> kPA, star |-> m])
                     ELSE writes
    /\ UNCHANGED <<info, binComp, jhMod, hkMod, teffMod, allRA, allDEC, Jmag,
                   Hmag, Kmag, J_Hobs, H_Kobs, targetIndex, sweetSpot, stars,
                   kPA, ind>>

\* the star loop of this angle is exhausted: the next angle
EndAngle ==
    /\ pc = "star"
    /\ i >= Len(ind)
    /\ kPA' = kPA + 1
    /\ pc' = "angle"
    /\ UNCHANGED <<info, binComp, jhMod, hkMod, teffMod, allRA, allDEC, Jmag,
                   Hmag, Kmag, J_Hobs, H_Kobs, targetIndex, sweetSpot, stars,
                   ind, i, simuCube, writes>>

\* line 195: return simuCube
Return ==
    /\ pc = "angle"
    /\ kPA >= nPA
    /\ pc' = "done"
    /\ UNCHANGED <<info, binComp, jhMod, hkMod, teffMod, allRA, allDEC, Jmag,
                   Hmag, Kmag, J_Hobs, H_Kobs, targetIndex, sweetSpot, stars,
                   kPA, ind, i, simuCube, writes>>

NextSim == Prepare \/ Project \/ CompositeStar \/ EndAngle \/ Return

(***************************************************************************)
(* core.ModelGrid: the table of grid points and its recorded ranges.       *)
(* A row of the table is [Teff, logg, FeH, filename]; logg and FeH are in  *)
(* tenths of a dex, wavelengths in microns.                                *)
(***************************************************************************)
VARIABLES
    data,         \* self.data: the rows, in the table's order
    Teff_rng, logg_rng, FeH_rng,       \* <<min, max>> of each axis
    Teff_vals, logg_vals, FeH_vals,    \* np.unique of each axis (ascending)
    wave_rng,     \* self.wave_rng
    n_bins,       \* self.n_bins
    array,        \* self.array: <<>> models '' (the flux is not loaded)
    wavelength,   \* self.wavelength: <<>> models the attribute not yet set
    result,       \* history: the outcome of the last get, grid_interp or load_flux call
    excluded      \* history: the grid points that customize calls cut from the table

gridVars ==
    <<data, Teff_rng, logg_rng, FeH_rng, Teff_vals, logg_vals, FeH_vals,
      wave_rng, n_bins, array, wavelength, result, excluded>>

vars == <<simVars, gridVars>>

\* the FITS headers found in the model directory (lines 350-374): a grid
\* of three axes in which some combinations of axis values have no file
GridFiles ==
    <<[Teff |-> 3000, logg |-> 40, FeH |-> 0, filename |-> "a.fits"],
      [Teff |-> 3500, logg |-> 40, FeH |-> 0, filename |-> "b.fits"],
      [Teff |-> 3000, logg |-> 50, FeH |-> 0, filename |-> "c.fits"],
      [Teff |-> 4000, logg |-> 50, FeH |-> 5, filename |-> "d.fits"],
      [Teff |-> 3500, logg |-> 45, FeH |-> 5, filename |-> "e.fits"]>>

\* self.n_bins = 1E10 (line 334); the model checker's integers end at
\* 2^31 - 1, so the model keeps a smaller number no caller passes
InitialNBins == 1000000000

Column(t, c) == { t[m][c] : m \in 1..Len(t) }
MinOf(S) == CHOOSE a \in S : \A b \in S : a <= b
MaxOf(S) == CHOOSE a \in S : \A b \in S : a >= b

\* a variant of RangeOf: the first and the last row, as of a sorted table
RangeOfFirstLast(t, c) == <<t[1][c], t[Len(t)][c]>>

\* (min(table[c]), max(table[c])); min() of an empty column raises ValueError
RangeOf(t, c) == <<MinOf(Column(t, c)), MaxOf(Column(t, c))>>

\* np.unique(table[c]): the distinct values, ascending
RECURSIVE SortedSeq(_)
SortedSeq(S) == IF S = {} THEN <<>> ELSE <<MinOf(S)>> \o SortedSeq(S \ {MinOf(S)})
Unique(t, c) == SortedSeq(Column(t, c))

\* the rows of t at the positions in S, in t's order
RECURSIVE SubTable(_, _, _)
SubTable(t, S, m) ==
    IF m > Len(t) THEN <<>>
    ELSE (IF m \in S THEN <<t[m]>> ELSE <<>>) \o SubTable(t, S, m + 1)

\* lines 358-367: a file that cannot be read is left out of the table; the
\* tables of the model are the non-empty selections of GridFiles
Tables == { SubTable(GridFiles, S, 1) : S \in (SUBSET (1..Len(GridFiles))) \ {{}} }

\* lines 385-390: a column whose values are all the same becomes an
\* attribute and leaves the table, the three axes excepted; the filename
\* column of a table of one row is such a column
StoredTable(t) ==
    IF Len(t) = 1
    THEN <<[Teff |-> t[1].Teff, logg |-> t[1].logg, FeH |-> t[1].FeH]>>
    ELSE t

\* no call made yet
NoResult ==
    [op |-> "none", args |-> <<>>, kind |-> "none", exc |-> "",
     flux |-> <<>>, wave |-> <<>>, reads |-> {}, interp |-> FALSE,
     retrievals |-> 0, reentered |-> FALSE]

\* lines 330-335 and 392-401: the grid after __init__ has read the table t
InitGridOf(t) ==
    /\ data = StoredTable(t)
    /\ wave_rng = <<0, 40>>
    /\ n_bins = InitialNBins
    /\ array = <<>>
    /\ wavelength = <<>>
    /\ result = NoResult
    /\ excluded = {}
    /\ Teff_rng = RangeOf(t, "Teff")
    /\ logg_rng = RangeOf(t, "logg")
    /\ FeH_rng = RangeOf(t, "FeH")
    /\ Teff_vals = Unique(t, "Teff")
    /\ logg_vals = Unique(t, "logg")
    /\ FeH_vals = Unique(t, "FeH")

InitGrid == \E t \in Tables : InitGridOf(t)

\* lines 646-651: the rows within the three ranges, in the table's order
RECURSIVE FilterGrid(_, _, _, _)
FilterGrid(grid, T, G, M) ==
    IF grid = <<>> THEN <<>>
    ELSE LET r == Head(grid)
             keep == /\ r.Teff >= T[1] /\ r.Teff <= T[2]
                     /\ r.logg >= G[1] /\ r.logg <= G[2]
                     /\ r.FeH >= M[1] /\ r.FeH <= M[2]
         IN  (IF keep THEN <<r>> ELSE <<>>) \o FilterGrid(Tail(grid), T, G, M)

\* lines 660-661: the table after the cut, the old one if the cut is empty
CutOrKeep(grid, cut) == IF Len(cut) = 0 THEN grid ELSE cut

\* line 642
NewWaveRng(old, arg) == arg
\* line 643: n_bins or self.n_bins (0 models a falsy argument, '' or 0)
NewNBins(old, arg) == IF arg # 0 THEN arg ELSE old

\* the (Teff, logg, FeH) of the rows of a table
PointsOf(t) == { <<t[n].Teff, t[n].logg, t[n].FeH>> : n \in 1..Len(t) }

\* a variant of customize: the table is cut and the recorded ranges and
\* values stay those of the table before the cut
customizeKeepsRanges(T, G, M, W, N) ==
    LET grid == data
        new == CutOrKeep(grid, FilterGrid(grid, T, G, M))
    IN  /\ wave_rng' = NewWaveRng(wave_rng, W)
        /\ n_bins' = NewNBins(n_bins, N)
        /\ data' = new
        /\ excluded' = excluded \cup (PointsOf(grid) \ PointsOf(new))
        /\ UNCHANGED <<Teff_rng, logg_rng, FeH_rng, Teff_vals, logg_vals,
                       FeH_vals, array, wavelength, result>>

\* customize(Teff_rng, logg_rng, FeH_rng, wave_rng, n_bins), lines 640-674
customize(T, G, M, W, N) ==
    LET grid == data
        cut == FilterGrid(grid, T, G, M)
        new == CutOrKeep(grid, cut)
    IN  /\ wave_rng' = NewWaveRng(wave_rng, W)
        /\ n_bins' = NewNBins(n_bins, N)
        /\ data' = new
        /\ Teff_rng' = RangeOf(new, "Teff")
        /\ logg_rng' = RangeOf(new, "logg")
        /\ FeH_rng' = RangeOf(new, "FeH")
        /\ Teff_vals' = Unique(new, "Teff")
        /\ logg_vals' = Unique(new, "logg")
        /\ FeH_vals' = Unique(new, "FeH")
        /\ excluded' = excluded \cup (PointsOf(grid) \ PointsOf(new))
        /\ UNCHANGED <<array, wavelength, result>>

\* the argument values the model passes; the first of each is the default
TeffRanges == { <<0, 10000>>, <<3000, 3000>>, <<3500, 4000>>, <<5000, 6000>> }
loggRanges == { <<0, 60>>, <<45, 50>>, <<55, 60>> }
FeHRanges == { <<-30, 30>>, <<5, 5>> }
WaveRanges == { <<0, 40>>, <<1, 2>>, <<2, 5>> }
NBinsArgs == { 0, 100, 200 }

Customize ==
    \E T \in TeffRanges, G \in loggRanges, M \in FeHRanges,
       W \in WaveRanges, N \in NBinsArgs :
        customize(T, G, M, W, N)

\* customize with n_bins left at its default, ''
CustomizeDefaultBins ==
    \E T \in TeffRanges, G \in loggRanges, M \in FeHRanges, W \in WaveRanges :
        customize(T, G, M, W, 0)

NextGrid == Customize

(***************************************************************************)
(* core.ModelGrid: get, grid_interp and load_flux (lines 403-614).         *)
(* The three methods call one another; an operator of the model takes the  *)
(* attributes the call may change (array, wavelength) and the history of   *)
(* the call (reads, interp) as the record s and gives them back.           *)
(* self.data[[mask]] (lines 436 and 646) is taken as the rows the mask     *)
(* selects and `in self.data` as 'there is such a row', as the comments of *)
(* lines 435 and 441 say.                                                  *)
(***************************************************************************)
\* Depth of the interpreter's stack in nested load_flux calls; the
\* interpreter's limit is 1000 frames, the model scales it.
RecursionLimit == 2

\* the wavelengths of every file in microns, after line 466; CRVAL1 and
\* CDELT1 are the same in every header, so they are attributes of the grid
RawWave == <<1, 3>>

\* fits.getdata(filepath, 0): the flux of a file, one row per mu
RawFlux(f) ==
    LET b == CASE f = "a.fits" -> 10
               [] f = "b.fits" -> 20
               [] f = "c.fits" -> 30
               [] f = "d.fits" -> 40
               [] OTHER -> 50
    IN  << <<b + 1, b + 2>> >>

\* lines 469-470: the positions of the wavelengths within wave_rng
TrimIdx(W) == { w \in 1..Len(RawWave) : RawWave[w] >= W[1] /\ RawWave[w] <= W[2] }
\* lines 471-472
TrimFlux(raw, W) == [mu \in 1..Len(raw) |-> SubTable(raw[mu], TrimIdx(W), 1)]
TrimWave(W) == SubTable(RawWave, TrimIdx(W), 1)

\* a variant of in_grid: the upper end of each range is excluded
in_gridBelowMax(T, g, m) ==
    /\ T >= Teff_rng[1] /\ T < Teff_rng[2]
    /\ g >= logg_rng[1] /\ g < logg_rng[2]
    /\ m >= FeH_rng[1] /\ m < FeH_rng[2]

\* lines 426-431
in_grid(T, g, m) ==
    /\ T >= Teff_rng[1] /\ T <= Teff_rng[2]
    /\ g >= logg_rng[1] /\ g <= logg_rng[2]
    /\ m >= FeH_rng[1] /\ m <= FeH_rng[2]

\* lines 436-438 and 445-447: the positions of the rows of the triple
RowsOf(T, g, m) ==
    { n \in 1..Len(data) : data[n].Teff = T /\ data[n].logg = g /\ data[n].FeH = m }

\* an exception leaves the method
Raise(e, s) == [kind |-> "error", exc |-> e, flux |-> <<>>, wave |-> <<>>, s |-> s]

\* the axis indices (nt, ng, nm) of the loops of lines 589-591
Combos ==
    (0..(Len(Teff_vals) - 1)) \X (0..(Len(logg_vals) - 1)) \X (0..(Len(FeH_vals) - 1))

\* line 601: np.zeros([len(T), len(G), len(M)] + list(flux.shape))
Zeros(flux) ==
    [shape |-> <<Len(Teff_vals), Len(logg_vals), Len(FeH_vals),
                 Len(flux), Len(flux[1])>>,
     val |-> [c \in Combos |->
                 [mu \in 1..Len(flux) |-> [w \in 1..Len(flux[1]) |-> 0]]]]

\* lines 597-607 for the answer r of get at the indices c; an answer that
\* is no record (None, line 497) or an exception ends in `except: pass`.
\* Every flux of one call has one shape: wave_rng does not change in it.
Store(c, r) ==
    IF r.kind # "spec" THEN r.s
    ELSE LET a == IF r.s.array = <<>> THEN Zeros(r.flux) ELSE r.s.array
         IN  [r.s EXCEPT !.array = [a EXCEPT !.val[c] = r.flux],
                         !.wavelength = r.wave]

RECURSIVE get(_, _, _, _, _)
RECURSIVE grid_interp(_, _, _, _, _)
RECURSIVE load_flux(_, _)
RECURSIVE FluxLoopT(_, _, _)
RECURSIVE FluxLoopG(_, _, _, _)
RECURSIVE FluxLoopM(_, _, _, _, _)

\* lines 425-497
get(T, g, m, s, depth) ==
    IF ~in_grid(T, g, m)
    THEN \* lines 494-497: the message, and None
         [kind |-> "not_in_grid", exc |-> "", flux |-> <<>>, wave |-> <<>>, s |-> s]
    ELSE IF RowsOf(T, g, m) = {}
    THEN grid_interp(T, g, m, s, depth)
    ELSE IF Cardinality(RowsOf(T, g, m)) # 1
    THEN \* line 445: `row, =` unpacks one index
         Raise("ValueError", s)
    ELSE LET row == data[CHOOSE n \in RowsOf(T, g, m) : TRUE]
         IN  IF "filename" \notin DOMAIN row
             THEN \* line 449
                  Raise("KeyError", s)
             ELSE [kind |-> "spec", exc |-> "",
                   flux |-> TrimFlux(RawFlux(row.filename), wave_rng),
                   wave |-> TrimWave(wave_rng),
                   s |-> [s EXCEPT !.reads = @ \cup {row.filename}]]

\* lines 522-575: line 542 reads new_flux, a local of the method that line
\* 546 is the first to assign
grid_interp(T, g, m, s, depth) ==
    LET s0 == [s EXCEPT !.interp = TRUE]
    IN  IF s0.array # <<>>
        THEN Raise("UnboundLocalError", s0)
        ELSE IF depth >= RecursionLimit
        THEN Raise("RecursionError", s0)
        ELSE LET s1 == load_flux(s0, depth + 1)
             IN  IF s1.array = <<>>
                 THEN \* line 528: a str has no copy()
                      Raise("AttributeError", s1)
                 ELSE Raise("UnboundLocalError", s1)

\* a variant of load_flux: the fluxes are loaded whether or not they are loaded
load_fluxAgain(s, depth) == FluxLoopT(s, 0, depth)

\* lines 583-614; running tells that the loops of a load_flux call are
\* under way, reentered that a call found them under way
load_flux(s, depth) ==
    IF s.array # <<>> THEN s
    ELSE LET out == FluxLoopT([s EXCEPT !.reentered = @ \/ s.running,
                                        !.running = TRUE], 0, depth)
         IN  [out EXCEPT !.running = s.running]

\* The loops of lines 589-591.  Each loop takes the attributes as the
\* items before left them; its guard reads them (a record has fields),
\* so that they are worked out before the next item and not inside it.
\* line 589: for nt, teff in enumerate(T)
FluxLoopT(s, nt, depth) ==
    IF DOMAIN s = {} \/ nt >= Len(Teff_vals) THEN s
    ELSE FluxLoopT(FluxLoopG(s, nt, 0, depth), nt + 1, depth)

\* line 590: for ng, logg in enumerate(G)
FluxLoopG(s, nt, ng, depth) ==
    IF DOMAIN s = {} \/ ng >= Len(logg_vals) THEN s
    ELSE FluxLoopG(FluxLoopM(s, nt, ng, 0, depth), nt, ng + 1, depth)

\* lines 591-612: for nm, feh in enumerate(M), and the body of the loops
FluxLoopM(s, nt, ng, nm, depth) ==
    IF DOMAIN s = {} \/ nm >= Len(FeH_vals) THEN s
    ELSE FluxLoopM(Store(<<nt, ng, nm>>,
                         get(Teff_vals[nt + 1], logg_vals[ng + 1],
                             FeH_vals[nm + 1],
                             [s EXCEPT !.retrievals = @ + 1], depth)),
                   nt, ng, nm + 1, depth)

\* the attributes a call may change, at the start of a call
CallState ==
    [array |-> array, wavelength |-> wavelength, reads |-> {}, interp |-> FALSE,
     retrievals |-> 0, running |-> FALSE, reentered |-> FALSE]

\* a call of get or grid_interp with the answer r
Answered(op, tr, r) ==
    /\ array' = r.s.array
    /\ wavelength' = r.s.wavelength
    /\ result' = [op |-> op, args |-> tr, kind |-> r.kind, exc |-> r.exc,
                  flux |-> r.flux, wave |-> r.wave,
                  reads |-> r.s.reads, interp |-> r.s.interp,
                  retrievals |-> r.s.retrievals, reentered |-> r.s.reentered]
    /\ UNCHANGED <<data, Teff_rng, logg_rng, FeH_rng, Teff_vals, logg_vals,
                   FeH_vals, wave_rng, n_bins, excluded>>

GetOf(tr) ==
    \E r \in {get(tr[1], tr[2], tr[3], CallState, 0)} : Answered("get", tr, r)

GridInterpOf(tr) ==
    \E r \in {grid_interp(tr[1], tr[2], tr[3], CallState, 0)} :
        Answered("grid_interp", tr, r)

\* the triples the model asks for: grid points, points between them and
\* points beyond either end of an axis
GetTriples ==
    { <<3000, 40, 0>>, <<4000, 50, 5>>, <<3500, 40, 0>>, <<3500, 45, 0>>,
      <<2900, 40, 0>>, <<3000, 55, 0>>, <<3500, 40, 10>> }

Get == \E tr \in GetTriples : GetOf(tr)

GridInterp == \E tr \in GetTriples : GridInterpOf(tr)

LoadFlux ==
    \E s \in {load_flux(CallState, 1)} :
        Answered("load_flux", <<>>,
                 [kind |-> "none", exc |-> "", flux |-> <<>>, wave |-> <<>>, s |-> s])

(***************************************************************************)
(* The specifications: a run of the simulation beside an untouched grid,   *)
(* and a grid under customize calls beside no simulation.                  *)
(***************************************************************************)
SimIdle ==
    /\ pc = "idle"
    /\ info = <<>> /\ binComp = <<>>
    /\ jhMod = <<>> /\ hkMod = <<>> /\ teffMod = <<>>
    /\ allRA = <<>> /\ allDEC = <<>>
    /\ Jmag = <<>> /\ Hmag = <<>> /\ Kmag = <<>>
    /\ J_Hobs = <<>> /\ H_Kobs = <<>>
    /\ targetIndex = 0
    /\ sweetSpot = [x |-> sweetSpotX, y |-> sweetSpotY, RA |-> 0, DEC |-> 0, jmag |-> 0]
    /\ stars = <<>>
    /\ kPA = 0 /\ ind = <<>> /\ i = 0
    /\ simuCube = <<>>
    /\ writes = <<>>

\* the simulation runs beside the grid of every file
GridWhole == InitGridOf(GridFiles)

Init == GridWhole /\ InitSim

Next ==
    \/ Prepare /\ UNCHANGED gridVars
    \/ Project /\ UNCHANGED gridVars
    \/ CompositeStar /\ UNCHANGED gridVars
    \/ EndAngle /\ UNCHANGED gridVars
    \/ Return /\ UNCHANGED gridVars

Spec == Init /\ [][Next]_vars

\* the simulation with a colour table that holds a NaN
InitNaN == GridWhole /\ InitSimNaN

SpecNaN == InitNaN /\ [][Next]_vars

GridInit == InitGrid /\ SimIdle

GridNext == Customize /\ UNCHANGED simVars

SpecGrid == GridInit /\ [][GridNext]_vars

\* the grids of the flux calls: every file, two files whose first
\* combination of axis values has no file, and a single file
FluxTables ==
    { SubTable(GridFiles, S, 1) : S \in { 1..Len(GridFiles), {2, 3}, {4} } }

FluxInit == (\E t \in FluxTables : InitGridOf(t)) /\ SimIdle

FluxNext ==
    \/ Get /\ UNCHANGED simVars
    \/ GridInterp /\ UNCHANGED simVars
    \/ LoadFlux /\ UNCHANGED simVars
    \/ CustomizeDefaultBins /\ UNCHANGED simVars

SpecFlux == FluxInit /\ [][FluxNext]_vars

(***************************************************************************)
(* Vocabulary of the properties.                                           *)
(***************************************************************************)
\* the star loop of angle kPA has processed every retained star
AngleComposited == pc = "star" /\ i = Len(ind)

\* the indices (0-based) of the stars retained at this angle
Retained == { ind[n] : n \in 1..Len(ind) }
StarIndices == { m - 1 : m \in 1..Len(stars) }

intxOf(m) == Round(stars[m + 1].dx)
intyOf(m) == Round(stars[m + 1].dy)

\* the cutout of star m in the output frame: each output pixel whose source
\* pixel lies inside the model array holds the flux scale times that pixel
Cutout(m) ==
    [p \in Pixels |->
        LET sx == p[2] + modelPadX - intxOf(m)
            sy == p[1] + modelPadY - intyOf(m)
        IN  IF sx >= 0 /\ sx < dimXmod /\ sy >= 0 /\ sy < dimYmod
            THEN models(FirstOf(TeffIndices(stars[m + 1].T)), sy, sx)
                     * fluxscale(stars[m + 1].jmag, sweetSpot)
            ELSE 0]

PlaneSum(a, b) == [p \in Pixels |-> a[p] + b[p]]

\* the sum of the cutouts of the stars of the sequence s that are in S
RECURSIVE SumCutouts(_, _)
SumCutouts(s, S) ==
    IF s = <<>> THEN ZeroPlane
    ELSE IF Head(s) \in S THEN PlaneSum(Cutout(Head(s)), SumCutouts(Tail(s), S))
    ELSE SumCutouts(Tail(s), S)

NotTarget == StarIndices \ {targetIndex}
OffCentre == { m \in StarIndices : intxOf(m) # 0 \/ intyOf(m) # 0 }

\* the slice assignments into plane n, and the stars that made them
WritesTo(n) == { e \in 1..Len(writes) : writes[e].plane = n }

(***************************************************************************)
(* C1.  Planes 0 and 1 of the cube are written exactly once across the     *)
(* sweep: only at angle index 0 and only by the target star; no other star *)
(* and no later angle writes them.                                         *)
(* The program takes every star whose rounded offset is (0,0) for the      *)
(* target, so a neighbour less than half a pixel away writes them too.     *)
(***************************************************************************)
C1_ReferencePlanesWrittenOnceByTarget ==
    /\ \A e \in 1..Len(writes) :
          writes[e].plane \in {0, 1}
              => writes[e].kPA = 0 /\ writes[e].star = targetIndex
    /\ pc = "done" => Cardinality(WritesTo(0)) = 1 /\ Cardinality(WritesTo(1)) = 1

(***************************************************************************)
(* C2.  Processing angle index k changes only plane k+2 of the cube (and   *)
(* planes 0 and 1 when k = 0); every other plane, in particular the plane  *)
(* of an angle already processed, keeps its content.                       *)
(***************************************************************************)
C2_OnlyOwnPlaneChanges ==
    [][\A n \in Planes :
          (n # kPA + 2 /\ ~(kPA = 0 /\ n \in {0, 1}))
              => simuCube'[n] = simuCube[n]]_vars

\* a later angle has added a star to its plane while the plane of angle 0
\* holds flux
C2_Witness ==
    /\ pc = "star" /\ kPA >= 1
    /\ simuCube[kPA + 2] # ZeroPlane
    /\ simuCube[2] # ZeroPlane
    /\ simuCube[0] # ZeroPlane

(***************************************************************************)
(* C3.  At every angle every retained star that is not the target has its  *)
(* flux-scaled cutout added to the angle's plane: once the stars of the    *)
(* angle are processed the plane is the sum of those cutouts.              *)
(* It fails for the neighbour of C1, which the program takes for the       *)
(* target and never adds.                                                  *)
(***************************************************************************)
C3_EveryFieldStarAdded ==
    AngleComposited => simuCube[kPA + 2] = SumCutouts(ind, NotTarget)

\* what the program does: the stars whose rounded offset is not (0,0) are added
FieldStarsAccumulated ==
    AngleComposited => simuCube[kPA + 2] = SumCutouts(ind, OffCentre)

(***************************************************************************)
(* C4.  For every retained star that is not rejected the clipped source    *)
(* slice and the clipped destination slice have the same height and the    *)
(* same width, both non-negative; the source slice lies within the model   *)
(* array (0..dimXmod by 0..dimYmod) and the destination slice within the   *)
(* output frame (0..dimX by 0..dimY).                                      *)
(***************************************************************************)
WindowFits(w) ==
    /\ 0 <= w.mx0 /\ w.mx0 <= w.mx1 /\ w.mx1 <= dimXmod
    /\ 0 <= w.my0 /\ w.my0 <= w.my1 /\ w.my1 <= dimYmod
    /\ 0 <= w.x0 /\ w.x0 + (w.mx1 - w.mx0) <= dimX
    /\ 0 <= w.y0 /\ w.y0 + (w.my1 - w.my0) <= dimY
    /\ SrcShape(w) = <<w.my1 - w.my0, w.mx1 - w.mx0>>
    /\ DstShape(w) = SrcShape(w)

C4_ClippedSlicesAgree ==
    pc = "star" =>
        \A m \in Retained :
            ~Rejected(intxOf(m), intyOf(m)) => WindowFits(Window(intxOf(m), intyOf(m)))

\* a retained star whose window is clipped at the source's far end, and one
\* whose window is clipped at its near end, both with pixels left
C4_Witness ==
    /\ pc = "star"
    /\ \E m \in Retained :
          /\ ~Rejected(intxOf(m), intyOf(m))
          /\ my1Of(intyOf(m)) > dimYmod
          /\ SrcShape(Window(intxOf(m), intyOf(m)))[1] > 0
    /\ \E m \in Retained :
          /\ ~Rejected(intxOf(m), intyOf(m))
          /\ my0Of(intyOf(m)) < 0
          /\ SrcShape(Window(intxOf(m), intyOf(m)))[1] > 0

(***************************************************************************)
(* C5.  Additivity: when the two field stars composited at an angle have   *)
(* cutouts that do not overlap, the angle's plane equals the pixelwise sum *)
(* of the plane that compositing the first alone gives and the plane that  *)
(* compositing the second alone gives, in whichever order the two stars    *)
(* are processed.                                                          *)
(***************************************************************************)
\* the field stars that line 190 composites at this angle
Composited ==
    { m \in Retained :
        /\ ~Rejected(intxOf(m), intyOf(m))
        /\ IsFieldStar(intxOf(m), intyOf(m)) }

WindowOf(m) == Window(intxOf(m), intyOf(m))

\* the plane that compositing star m onto the plane pl gives
Onto(pl, m) ==
    AddModel(pl, WindowOf(m), FirstOf(TeffIndices(stars[m + 1].T)),
             fluxscale(stars[m + 1].jmag, sweetSpot))

Alone(m) == Onto(ZeroPlane, m)

DstPixels(m) == { p \in Pixels : InDst(p, WindowOf(m)) }

C5_Additivity ==
    AngleComposited =>
        \A a, b \in Composited :
            (a # b /\ Composited = {a, b} /\ DstPixels(a) \cap DstPixels(b) = {})
                => /\ simuCube[kPA + 2] = PlaneSum(Alone(a), Alone(b))
                   /\ Onto(Alone(a), b) = Onto(Alone(b), a)

\* two field stars with non-empty, disjoint cutouts were composited
C5_Witness ==
    /\ AngleComposited
    /\ \E a, b \in Composited :
          /\ a < b /\ Composited = {a, b}
          /\ DstPixels(a) # {} /\ DstPixels(b) # {}
          /\ DstPixels(a) \cap DstPixels(b) = {}

(***************************************************************************)
(* C6.  A star whose projected position lies strictly outside the field    *)
(* window at angle k changes no pixel of plane k+2: it is not retained and *)
(* no slice assignment of that angle is made for it.                       *)
(***************************************************************************)
StrictlyOutside(m) ==
    \/ stars[m + 1].x < -162 * PixDen
    \/ stars[m + 1].x > 2232 * PixDen
    \/ stars[m + 1].y < -154 * PixDen
    \/ stars[m + 1].y > 2221 * PixDen

C6_OutsideContributesNothing ==
    pc = "star" =>
        \A m \in StarIndices :
            StrictlyOutside(m) =>
                /\ m \notin Retained
                /\ \A e \in 1..Len(writes) :
                      ~(writes[e].kPA = kPA /\ writes[e].star = m)
                /\ (i = Len(ind) =>
                      simuCube[kPA + 2] = SumCutouts(ind, OffCentre \ {m}))

\* the angle is composited, a star of the field lies outside the window
\* and its cutout, had it been composited, would hold flux
C6_Witness ==
    /\ AngleComposited
    /\ simuCube[kPA + 2] # ZeroPlane
    /\ \E m \in StarIndices : StrictlyOutside(m) /\ Cutout(m) # ZeroPlane

(***************************************************************************)
(* C7.  Field membership at the margin: a star whose rounded pixel         *)
(* position is one pixel (or more) outside the field window on any side is *)
(* excluded at that angle, and a star whose rounded pixel position is one  *)
(* pixel (or more) inside the window is included.                          *)
(***************************************************************************)
\* the rounded pixel position: the rounded offset from the reference pixel
rxOf(m) == intxOf(m) + sweetSpotX
ryOf(m) == intyOf(m) + sweetSpotY

C7_MarginMembership ==
    pc = "star" =>
        \A m \in StarIndices :
            /\ (rxOf(m) <= -163 \/ rxOf(m) >= 2233 \/ ryOf(m) <= -155 \/ ryOf(m) >= 2222)
                   => m \notin Retained
            /\ (rxOf(m) >= -161 /\ rxOf(m) <= 2231 /\ ryOf(m) >= -153 /\ ryOf(m) <= 2220)
                   => m \in Retained

\* one star exactly one pixel outside and one exactly one pixel inside
C7_Witness ==
    /\ pc = "star"
    /\ \E m \in StarIndices :
          /\ (rxOf(m) = -163 \/ rxOf(m) = 2233 \/ ryOf(m) = -155 \/ ryOf(m) = 2222)
          /\ m \notin Retained
    /\ \E m \in StarIndices :
          /\ (rxOf(m) = -161 \/ rxOf(m) = 2231 \/ ryOf(m) = -153 \/ ryOf(m) = 2220)
          /\ m \in Retained

(***************************************************************************)
(* C8.  At every angle of the sweep the target star's projected pixel      *)
(* offset is (0,0) and its detector position is the reference pixel (the   *)
(* sweet spot), and the sweet spot never changes during the run.           *)
(***************************************************************************)
TargetAtSweetSpot ==
    pc = "star" =>
        LET t == stars[targetIndex + 1]
        IN  /\ t.dx = 0 /\ t.dy = 0
            /\ intxOf(targetIndex) = 0 /\ intyOf(targetIndex) = 0
            /\ t.x = sweetSpotX * PixDen /\ t.y = sweetSpotY * PixDen

SweetSpotFixed ==
    /\ sweetSpot'.x = sweetSpotX /\ sweetSpot'.y = sweetSpotY
    /\ pc # "start" => sweetSpot' = sweetSpot

C8_TargetStaysAtSweetSpot == [](TargetAtSweetSpot) /\ [][SweetSpotFixed]_vars

\* a later angle, with a field star elsewhere and a target that is not at
\* the query position
C8_Witness ==
    /\ pc = "star" /\ kPA >= 1
    /\ Len(stars) >= 2
    /\ <<stars[targetIndex + 1].RA, stars[targetIndex + 1].DEC>> # <<targetRA, targetDEC>>
    /\ \E m \in StarIndices : stars[m + 1].dx # 0

(***************************************************************************)
(* C9.  The temperature classifier gives each star the temperature stored  *)
(* at the colour-table entry nearest to the star's (J-H, H-K) in Euclidean *)
(* distance, the entry of lowest index among several nearest ones, and it  *)
(* changes neither the table nor the star's colours.                       *)
(***************************************************************************)
ColourDist2(m, n) ==
    (J_Hobs[m] - jhMod[n]) * (J_Hobs[m] - jhMod[n])
        + (H_Kobs[m] - hkMod[n]) * (H_Kobs[m] - hkMod[n])

NearestEntryAssigned ==
    \A m \in 1..Len(stars) :
        \E n \in 1..Len(teffMod) :
            /\ stars[m].T = teffMod[n]
            /\ \A o \in 1..Len(teffMod) : ColourDist2(m, n) <= ColourDist2(m, o)
            /\ \A o \in 1..(n - 1) : ColourDist2(m, o) > ColourDist2(m, n)

TableAndColoursKept ==
    /\ <<jhMod, hkMod, teffMod>>' = <<jhMod, hkMod, teffMod>>
    /\ pc # "start" => <<J_Hobs, H_Kobs>>' = <<J_Hobs, H_Kobs>>

C9_NearestColourEntry == [](NearestEntryAssigned) /\ [][TableAndColoursKept]_vars

\* a classified star with two nearest entries of different temperatures
C9_Witness ==
    /\ pc = "angle"
    /\ \E m \in 1..Len(stars) :
          \E n, o \in 1..Len(teffMod) :
              /\ n < o /\ teffMod[n] # teffMod[o]
              /\ ColourDist2(m, n) = ColourDist2(m, o)
              /\ \A q \in 1..Len(teffMod) : ColourDist2(m, n) <= ColourDist2(m, q)

(***************************************************************************)
(* C10.  A customize call whose parameter ranges exclude every grid point  *)
(* raises no error and leaves the grid's whole prior state unchanged: the  *)
(* table, the recorded ranges and axis values, the wavelength range and    *)
(* the number of bins.                                                     *)
(* The program assigns wave_rng and n_bins before it finds the cut empty.  *)
(***************************************************************************)
C10_EmptyCutKeepsState ==
    [][\A T \in TeffRanges, G \in loggRanges, M \in FeHRanges,
          W \in WaveRanges, N \in NBinsArgs :
            (FilterGrid(data, T, G, M) = <<>> /\ customize(T, G, M, W, N))
                => UNCHANGED <<data, Teff_rng, logg_rng, FeH_rng, Teff_vals,
                               logg_vals, FeH_vals, wave_rng, n_bins>>]_vars

\* what the program keeps on an empty cut: the table, the ranges, the values
EmptyCutKeepsTable ==
    [][\A T \in TeffRanges, G \in loggRanges, M \in FeHRanges,
          W \in WaveRanges, N \in NBinsArgs :
            (FilterGrid(data, T, G, M) = <<>> /\ customize(T, G, M, W, N))
                => UNCHANGED <<data, Teff_rng, logg_rng, FeH_rng, Teff_vals,
                               logg_vals, FeH_vals, array>>]_vars

(***************************************************************************)
(* Vocabulary of the properties of the grid.                               *)
(***************************************************************************)
\* the triple lies outside the recorded [min, max] of at least one axis
OutsideRecorded(tr) ==
    \/ tr[1] < Teff_rng[1] \/ tr[1] > Teff_rng[2]
    \/ tr[2] < logg_rng[1] \/ tr[2] > logg_rng[2]
    \/ tr[3] < FeH_rng[1] \/ tr[3] > FeH_rng[2]

\* the triple is a row of the table
StoredPoint(tr) ==
    \E n \in 1..Len(data) :
        data[n].Teff = tr[1] /\ data[n].logg = tr[2] /\ data[n].FeH = tr[3]

C12_OffGridGetInterpolates ==
    [][\A tr \in GetTriples :
          (GetOf(tr) /\ ~OutsideRecorded(tr) /\ ~StoredPoint(tr)) =>
              /\ result'.interp
              /\ result'.kind = "spec"
              /\ \A mu \in 1..Len(result'.flux) :
                    Len(result'.flux[mu]) = Len(wavelength')]_vars

\* what the program does: it delegates, and the delegate raises
OffGridGetRaises ==
    [][\A tr \in GetTriples :
          (GetOf(tr) /\ ~OutsideRecorded(tr) /\ ~StoredPoint(tr)) =>
              result'.interp /\ result'.kind = "error"]_vars

(***************************************************************************)
(* C13.  The flux tensor is materialized at most once: once self.array     *)
(* holds it, no call changes it (get, grid_interp, load_flux, customize),  *)
(* and a grid_interp or load_flux call, or a get that interpolates, reads  *)
(* no file.                                                                *)
(***************************************************************************)
C13_FluxMaterializedOnce ==
    [][array # <<>> =>
          /\ array' = array
          /\ (GridInterp \/ LoadFlux) => result'.reads = {}
          /\ (Get /\ result'.interp) => result'.reads = {}]_vars

\* the tensor is held, the table was cut after it was loaded, and the last
\* call, a load_flux, read no file
C13_Witness ==
    /\ array # <<>>
    /\ array.shape[1] # Len(Teff_vals)
    /\ result.op = "load_flux" /\ result.reads = {}
    /\ wave_rng # <<0, 40>>

(***************************************************************************)
(* C20.  After construction of a non-empty grid and after any sequence of  *)
(* customize calls the table is a non-empty subset of the table at         *)
(* construction (no call adds a row), each recorded axis range is the      *)
(* (min, max) of that axis over the current table, and each axis value     *)
(* list holds the distinct values of that axis in the current table, each  *)
(* once.                                                                   *)
(***************************************************************************)
\* r is <<min, max>> of the values of column c
IsMinMax(r, c) ==
    /\ \E n \in 1..Len(data) : data[n][c] = r[1]
    /\ \E n \in 1..Len(data) : data[n][c] = r[2]
    /\ \A n \in 1..Len(data) : r[1] <= data[n][c] /\ data[n][c] <= r[2]

\* v lists the distinct values of column c, each once
IsDistinctValues(v, c) ==
    /\ \A n \in 1..Len(data) : \E o \in 1..Len(v) : v[o] = data[n][c]
    /\ \A o \in 1..Len(v) : \E n \in 1..Len(data) : v[o] = data[n][c]
    /\ \A o, q \in 1..Len(v) : o # q => v[o] # v[q]

RangesAndValuesMatchTable ==
    /\ Len(data) > 0
    /\ IsMinMax(Teff_rng, "Teff") /\ IsMinMax(logg_rng, "logg") /\ IsMinMax(FeH_rng, "FeH")
    /\ IsDistinctValues(Teff_vals, "Teff")
    /\ IsDistinctValues(logg_vals, "logg")
    /\ IsDistinctValues(FeH_vals, "FeH")

NoRowAdded ==
    \A n \in 1..Len(data') : \E o \in 1..Len(data) : data'[n] = data[o]

C20_GridMatchesTable == [](RangesAndValuesMatchTable) /\ [][NoRowAdded]_vars

\* a table of three rows is no table of construction: a customize call cut
\* it, to two values of Teff out of three
C20_Witness ==
    /\ Len(data) = 3
    /\ Len(Teff_vals) = 2
    /\ Teff_rng[1] > 3000

(***************************************************************************)
(* C14.  When the catalog query returns zero records or exactly one record *)
(* the run completes without error and returns the cube at its full shape; *)
(* with only the target in the field every angle plane (index 2 and above) *)
(* is all zeros.                                                           *)
(* With zero records np.argmin (line 34) raises ValueError.                *)
(***************************************************************************)
FullShape ==
    /\ DOMAIN simuCube = 0..(nPA + 1)
    /\ \A n \in DOMAIN simuCube : DOMAIN simuCube[n] = Pixels

C14_SmallCatalogCompletes ==
    Len(info) <= 1 =>
        /\ pc # "error"
        /\ pc = "done" =>
              /\ FullShape
              /\ binComp = <<>> => \A n \in 2..(nPA + 1) : simuCube[n] = ZeroPlane

\* what the program does: the run of a catalog of one record completes
SingleRecordCompletes ==
    Len(info) = 1 =>
        /\ pc # "error"
        /\ pc = "done" =>
              /\ FullShape
              /\ binComp = <<>> => \A n \in 2..(nPA + 1) : simuCube[n] = ZeroPlane

(***************************************************************************)
(* C15.  Appending a synthetic companion leaves every catalog star's J, H  *)
(* and K magnitudes unchanged, so that its colour indices and its assigned *)
(* temperature are those of the run without the companion, and the         *)
(* companion's H magnitude is the H value the caller supplied.             *)
(* Line 43 appends the caller's H to Kmag: every catalog star's H becomes  *)
(* its K.                                                                  *)
(***************************************************************************)
C15_CompanionKeepsCatalogMagnitudes ==
    (pc \notin {"start", "error"} /\ binComp # <<>>) =>
        /\ \A m \in 1..Len(info) :
              /\ Jmag[m] = info[m].j_m
              /\ Hmag[m] = info[m].h_m
              /\ Kmag[m] = info[m].k_m
              /\ J_Hobs[m] = info[m].j_m - info[m].h_m
              /\ H_Kobs[m] = info[m].h_m - info[m].k_m
              /\ stars[m].T = AssignTeff(info[m].j_m - info[m].h_m,
                                         info[m].h_m - info[m].k_m)
        /\ Hmag[Len(info) + 1] = binComp[4]

\* what the program does: J and K are kept and the companion's three
\* magnitudes are the caller's
CompanionKeepsJAndK ==
    (pc \notin {"start", "error"} /\ binComp # <<>>) =>
        /\ \A m \in 1..Len(info) : Jmag[m] = info[m].j_m /\ Kmag[m] = info[m].k_m
        /\ Jmag[Len(info) + 1] = binComp[3]
        /\ Hmag[Len(info) + 1] = binComp[4]
        /\ Kmag[Len(info) + 1] = binComp[5]

(***************************************************************************)
(* C16.  When a retained star's assigned temperature has no entry in the   *)
(* model temperature table (no entry compares equal to it) the run aborts  *)
(* at that star: the star is not skipped, the cube is left as it is, and   *)
(* no step follows the abort, so no later star or angle is composited.     *)
(***************************************************************************)
MissingTemperature(m) ==
    \A n \in 1..Len(teffMod) :
        teffMod[n] # stars[m + 1].T \/ teffMod[n] = NaN \/ stars[m + 1].T = NaN

AbortsAtMissingTemperature ==
    (pc = "star" /\ i < Len(ind) /\ MissingTemperature(ind[i + 1])) =>
        /\ pc' = "error"
        /\ simuCube' = simuCube /\ writes' = writes

C16_MissingTemperatureAborts ==
    [][AbortsAtMissingTemperature]_vars /\ [][pc # "error"]_vars

\* the run aborted at a later angle, after stars were composited
C16_Witness ==
    /\ pc = "error"
    /\ kPA >= 1
    /\ Len(writes) >= 3
    /\ MissingTemperature(ind[i + 1])

(***************************************************************************)
(* C17.  For every composited star with integer offset (intx, inty) the    *)
(* output pixels written are exactly the pixels (x, y) whose source pixel  *)
(* (x + modelPadX - intx, y + modelPadY - inty) lies inside the model      *)
(* array; each receives the flux scale times that source pixel (added to   *)
(* the angle's plane for a field star, stored in planes 0 and 1 for the    *)
(* target), and no other pixel of the cube changes.                        *)
(***************************************************************************)
SrcX(p, m) == p[2] + modelPadX - intxOf(m)
SrcY(p, m) == p[1] + modelPadY - intyOf(m)
SrcInside(p, m) ==
    /\ SrcX(p, m) >= 0 /\ SrcX(p, m) < dimXmod
    /\ SrcY(p, m) >= 0 /\ SrcY(p, m) < dimYmod

\* the step executed a slice assignment: the star is composited
Composites == pc = "star" /\ i < Len(ind) /\ Len(writes') > Len(writes)

ExactPixelsWritten ==
    Composites =>
        LET m == ind[i + 1]
            k == CHOOSE n \in 0..(Len(teffMod) - 1) :
                    /\ teffMod[n + 1] = stars[m + 1].T
                    /\ \A o \in 0..(n - 1) : teffMod[o + 1] # stars[m + 1].T
            scale == fluxscale(stars[m + 1].jmag, sweetSpot)
            field == writes'[Len(writes')].plane >= 2
        IN  \A n \in Planes : \A p \in Pixels :
                simuCube'[n][p] =
                    IF field /\ n = kPA + 2 /\ SrcInside(p, m)
                    THEN simuCube[n][p] + scale * models(k, SrcY(p, m), SrcX(p, m))
                    ELSE IF ~field /\ n \in {0, 1} /\ SrcInside(p, m)
                    THEN scale * modelO12(k, n, SrcY(p, m), SrcX(p, m))
                    ELSE simuCube[n][p]

C17_ExactPixelsWritten == [][ExactPixelsWritten]_vars

\* the last star composited at this angle is a field star whose cutout
\* covers a part of the frame only
C17_Witness ==
    /\ pc = "star" /\ i >= 1
    /\ writes # <<>>
    /\ writes[Len(writes)] = [plane |-> kPA + 2, kPA |-> kPA, star |-> ind[i]]
    /\ \E p \in Pixels : SrcInside(p, ind[i])
    /\ \E p \in Pixels : ~SrcInside(p, ind[i])

(***************************************************************************)
(* C18.  A retained star whose window has no overlap with the model array  *)
(* in either axis changes no pixel of the cube and raises no error: the    *)
(* star loop goes on with the next star of the angle, and so to the later  *)
(* angles.                                                                 *)
(***************************************************************************)
NoOverlapAt(intx, inty) ==
    \/ \A x \in 0..(dimX - 1) :
          x + modelPadX - intx < 0 \/ x + modelPadX - intx >= dimXmod
    \/ \A y \in 0..(dimY - 1) :
          y + modelPadY - inty < 0 \/ y + modelPadY - inty >= dimYmod

SkipsStarWithoutOverlap ==
    (pc = "star" /\ i < Len(ind) /\ NoOverlapAt(intxOf(ind[i + 1]), intyOf(ind[i + 1]))) =>
        /\ simuCube' = simuCube
        /\ pc' = "star" /\ i' = i + 1
        /\ kPA' = kPA /\ ind' = ind

C18_NoOverlapStarSkipped == [][SkipsStarWithoutOverlap]_vars

\* the offsets of star m at the first angle
intxAtFirst(m) == Round(dxOf(stars[m + 1], PAtab[1]))
intyAtFirst(m) == Round(dyOf(stars[m + 1], PAtab[1]))

\* the run is over; at the first angle a star without overlap was retained,
\* the star after it was composited, and so was a star of a later angle
C18_Witness ==
    /\ pc = "done"
    /\ \E m \in StarIndices :
          /\ InFOV(Projected(stars, PAtab[1])[m + 1])
          /\ NoOverlapAt(intxAtFirst(m), intyAtFirst(m))
          /\ mx1Of(intxAtFirst(m)) < 0
          /\ \E e \in 1..Len(writes) : writes[e].kPA = 0 /\ writes[e].star > m
    /\ \E e \in 1..Len(writes) : writes[e].kPA >= 1

(***************************************************************************)
(* C19.  Dropping a star at one angle affects that angle only: field       *)
(* membership is evaluated at every angle from the full, unchanged star    *)
(* set, so a star that is outside the field at an angle k and inside it at *)
(* a later angle k' is retained at k' and composited into plane k'+2.      *)
(***************************************************************************)
\* star m was outside the field of view at an angle before this one
WasOutside(m) ==
    \E k \in 0..(kPA - 1) : ~InFOV(Projected(stars, PAtab[k + 1])[m + 1])

ReentryComposited ==
    AngleComposited =>
        \A m \in StarIndices :
            (WasOutside(m) /\ InFOV(stars[m + 1])) =>
                /\ m \in Retained
                /\ m \in OffCentre =>
                      simuCube[kPA + 2]
                          = PlaneSum(SumCutouts(ind, OffCentre \ {m}), Cutout(m))

StarSetKept ==
    pc # "start" =>
        /\ Len(stars') = Len(stars)
        /\ \A m \in 1..Len(stars) :
              /\ stars'[m].dRA = stars[m].dRA /\ stars'[m].dDEC = stars[m].dDEC
              /\ stars'[m].jmag = stars[m].jmag /\ stars'[m].T = stars[m].T

C19_DroppedStarReenters == [](ReentryComposited) /\ [][StarSetKept]_vars

\* a star that was outside at an earlier angle is inside at this one, and
\* its cutout holds flux
C19_Witness ==
    /\ AngleComposited
    /\ \E m \in StarIndices :
          /\ WasOutside(m) /\ InFOV(stars[m + 1])
          /\ Cutout(m) # ZeroPlane

(***************************************************************************)
(* C21.  Once a customize call has cut the table, every stored grid point  *)
(* the cut removed lies outside the recorded range of at least one axis,   *)
(* and a get for it ends on the not-in-grid path: it reads no file, does   *)
(* not reach grid_interp and leaves the flux tensor as it was.             *)
(***************************************************************************)
ExcludedOutsideRecorded == \A tr \in excluded : OutsideRecorded(tr)

ExcludedGetRefused ==
    \A tr \in GetTriples :
        (GetOf(tr) /\ tr \in excluded) =>
            /\ result'.kind = "not_in_grid"
            /\ result'.reads = {} /\ ~result'.interp
            /\ array' = array /\ wavelength' = wavelength

C21_ExcludedPointOutOfRange ==
    [](ExcludedOutsideRecorded) /\ [][ExcludedGetRefused]_vars

\* the last get asked for a point that a cut removed from a table which
\* still holds three rows, and it was refused
C21_Witness ==
    /\ result.op = "get" /\ result.args \in excluded
    /\ result.kind = "not_in_grid"
    /\ Len(data) = 3
    /\ ~StoredPoint(result.args)

\* the first combination of axis values of the loops of load_flux is a row
FirstComboStored == StoredPoint(<<Teff_vals[1], logg_vals[1], FeH_vals[1]>>)

\* some combination of axis values is no row of the table
SomeComboNotStored ==
    \E c \in Combos :
        ~StoredPoint(<<Teff_vals[c[1] + 1], logg_vals[c[2] + 1], FeH_vals[c[3] + 1]>>)

(***************************************************************************)
(* C22.  A load_flux call that finds no tensor ends after exactly one get  *)
(* per combination of the distinct Teff, logg and FeH values, and no       *)
(* load_flux is entered while its loops run, whether or not every          *)
(* combination is a row of the table.                                      *)
(* A combination that is no row sends get to grid_interp (line 490); as    *)
(* long as no flux is stored self.array is still a str, and grid_interp    *)
(* calls load_flux again (lines 523-525), which starts the loops anew.     *)
(***************************************************************************)
C22_LoadFluxOneGetPerCombo ==
    [][(LoadFlux /\ array = <<>>) =>
          /\ result'.retrievals = Cardinality(Combos)
          /\ ~result'.reentered]_vars

\* what the program does: the count is exact and no call is nested when
\* the first combination is a row
LoadFluxOneGetPerComboFromStored ==
    [][(LoadFlux /\ array = <<>> /\ FirstComboStored) =>
          /\ result'.retrievals = Cardinality(Combos)
          /\ ~result'.reentered]_vars

\* and load_flux is entered anew when the first combination is no row
LoadFluxReentersFromMissing ==
    [][(LoadFlux /\ array = <<>> /\ ~FirstComboStored) =>
          /\ result'.reentered
          /\ result'.retrievals > Cardinality(Combos)]_vars

\* a load_flux call on a grid with a missing combination ended without a
\* nested call
LoadFluxCompletesWithMissingCombo ==
    /\ result.op = "load_flux" /\ ~result.reentered
    /\ result.retrievals = Cardinality(Combos)
    /\ SomeComboNotStored

\* the temperature of star m is an entry of the table's temperature array
AssignedFromTable(m) == \E n \in 1..Len(teffMod) : stars[m].T = teffMod[n]

\* k of line 160 for star m, and the index line 70 selected for it
LookupIndex(m) == FirstOf(TeffIndices(stars[m].T))
ClassifierIndex(m) == min_separation_ind(J_Hobs[m], H_Kobs[m])

\* the lowest index (0-based) whose temperature equals that of star m
LowestEqualIndex(m) ==
    CHOOSE n \in 0..(Len(teffMod) - 1) :
        /\ teffMod[n + 1] = stars[m].T
        /\ \A o \in 0..(n - 1) : teffMod[o + 1] # stars[m].T

\* no two entries of the table hold the same temperature (a NaN equals none)
TemperaturesDistinct ==
    \A a, b \in 1..Len(teffMod) :
        a # b => (teffMod[a] # teffMod[b] \/ teffMod[a] = NaN)

(***************************************************************************)
(* C23.  Every temperature the classifier assigns is an entry of the       *)
(* table's temperature array, and the lookup of line 160 finds an index    *)
(* for every star: the lowest index whose temperature equals the star's,   *)
(* which is the index the classifier selected for the star whenever the    *)
(* temperatures of the table are pairwise distinct.                        *)
(* The lookup compares values (teffMod == T): a star whose nearest entry   *)
(* holds a NaN is assigned that NaN, an entry of the array, and np.where   *)
(* finds no index for it.                                                  *)
(***************************************************************************)
C23_LookupFindsClassifierIndex ==
    \A m \in 1..Len(stars) :
        /\ AssignedFromTable(m)
        /\ TeffIndices(stars[m].T) # {}
        /\ LookupIndex(m) = LowestEqualIndex(m)
        /\ TemperaturesDistinct => LookupIndex(m) = ClassifierIndex(m)

\* what the program does: the same, for the stars that are assigned a number
NumberLookupFindsClassifierIndex ==
    \A m \in 1..Len(stars) :
        /\ AssignedFromTable(m)
        /\ stars[m].T # NaN =>
              /\ TeffIndices(stars[m].T) # {}
              /\ LookupIndex(m) = LowestEqualIndex(m)
              /\ TemperaturesDistinct => LookupIndex(m) = ClassifierIndex(m)

====
